---- MODULE Spec2Model ----
(***************************************************************************)
(* Audit trail store, trace reconstruction, firewall hook and request      *)
(* validator of netrunner-org/server.                                      *)
(*                                                                         *)
(* Two prototypes of the audit store exist in the source: the package      *)
(* functions of src/src/audit/audit.go ("Inputs", JSON response) and the   *)
(* pooled Store of src/unnamed/part_003 ("Messages", text response).  The  *)
(* variable impl says which of the two a behaviour runs.                   *)
(*                                                                         *)
(* Encodings.  Text of a uuid: a positive integer n is the canonical text  *)
(* of uuid n, 0 is the empty string, a negative integer is text that is    *)
(* not a uuid.  A Go map[string]interface{} is [isNil, kv] with kv a set   *)
(* of entries [k, t, v] (t the dynamic Go type of the value, v a code of   *)
(* the value).  JSON bytes are [j, members] with j one of "nil" (no        *)
(* bytes / SQL NULL), "null", "object".  A float64 is [c, v] with c one    *)
(* of "num", "+Inf", "NaN" and v the value in units of 10^-7.              *)
(***************************************************************************)
EXTENDS Integers, Sequences, FiniteSets, TLC

VARIABLES
  impl,            \* which prototype of the audit store runs: "audit" or "store"
  request_log,     \* table request_log, in insertion order
  response_log,    \* table response_log, in insertion order
  firewall_event,  \* table firewall_event, in insertion order
  last,            \* the latest audit call: operation, argument, error, returned id / Trace
  returned,        \* history: the correlation ids successful LogRequest calls returned
  config,          \* what LoadConfig returned: [loaded, err, Firewalls]
  classifierDown,  \* the classifier models whose invocation fails (environment)
  hook,            \* the latest call of the Firewall hook and its result
  run,             \* the latest call of maliciousIntent.Run and its result
  parse,           \* the latest call of ParseGenerateRequest and its result
  handler,         \* what the caller of the Firewall hook did with the hook's answer
  mu,              \* the store's mutex: 0 when free, else the caller that holds it
  conn,            \* the statement in flight on the store's connection, and whose it is
  procs            \* the concurrent callers of the store: position, call and result

auditVars == <<impl, request_log, response_log, firewall_event, last, returned>>

\* the number of concurrent callers of the store
MaxProcs == 2

Procs == 1 .. MaxProcs

\* a caller that has not called yet
Idle == [pc |-> "idle", op |-> "none", arg |-> 0, down |-> FALSE, err |-> "nil", id |-> 0]

\* the connection with no statement in flight
NoStatement == [owner |-> 0]

firewallVars == <<config, classifierDown, hook, run, handler>>

concVars == <<mu, conn, procs>>

vars == <<impl, request_log, response_log, firewall_event, last, returned, config,
          classifierDown, hook, run, parse, handler, mu, conn, procs>>

\* ---------------------------------------------------------------- bounds
MaxRequests == 2
MaxResponses == 2
MaxEvents == 2
MaxFirewalls == 2
MaxMessages == 2

\* ------------------------------------------------------ JSON (encoding/json)
NilMap == [isNil |-> TRUE, kv |-> {}]

GoMap(entries) == [isNil |-> FALSE, kv |-> entries]

NoBytes == [j |-> "nil", members |-> {}]

\* JSON type a Go value is written as; a channel has none.
JsonType(t) ==
  CASE t = "string" -> "string"
    [] t = "int" -> "number"
    [] t = "float64" -> "number"
    [] OTHER -> "unsupported"

\* json.Marshal of a map[string]interface{}
Marshal(m) ==
  IF \E e \in m.kv : JsonType(e.t) = "unsupported"
  THEN [err |-> TRUE, bytes |-> NoBytes]
  ELSE IF m.isNil
       THEN [err |-> FALSE, bytes |-> [j |-> "null", members |-> {}]]
       ELSE [err |-> FALSE,
             bytes |-> [j |-> "object",
                        members |-> {[k |-> e.k, t |-> JsonType(e.t), v |-> e.v] : e \in m.kv}]]

\* Go type json.Unmarshal gives a JSON value inside an interface{}
GoType(t) == IF t = "number" THEN "float64" ELSE "string"

\* json.Unmarshal(bytes, &m) with m a nil map[string]interface{}
Unmarshal(bytes) ==
  CASE bytes.j = "object" ->
         [err |-> FALSE,
          m |-> GoMap({[k |-> e.k, t |-> GoType(e.t), v |-> e.v] : e \in bytes.members})]
    [] bytes.j = "null" -> [err |-> FALSE, m |-> NilMap]
    [] OTHER -> [err |-> TRUE, m |-> NilMap]

\* ------------------------------------------------------------ pgtype / netip
NullUUID == [Valid |-> FALSE, Bytes |-> 0]

\* pgtype.UUID.Scan(string): the destination keeps its zero value on error
ScanUUID(s) ==
  IF s > 0 THEN [err |-> FALSE, uuid |-> [Valid |-> TRUE, Bytes |-> s]]
  ELSE [err |-> TRUE, uuid |-> NullUUID]

\* pgtype.UUID.String()
UUIDString(u) == IF u.Valid THEN u.Bytes ELSE 0

\* netip.ParseAddr
ParseAddr(s) ==
  IF s = "127.0.0.1" THEN [err |-> FALSE, ip |-> [Valid |-> TRUE, Addr |-> s]]
  ELSE [err |-> TRUE, ip |-> [Valid |-> FALSE, Addr |-> ""]]

NoIP == [Valid |-> FALSE, Addr |-> ""]

\* fmt.Sprintf("%f", x): six decimals, round half away from zero
Sprintf_f(x) ==
  IF x.c = "num"
  THEN [c |-> "num",
        v |-> IF x.v >= 0 THEN ((x.v + 5) \div 10) * 10 ELSE -(((-x.v) + 5) \div 10) * 10]
  ELSE [c |-> x.c, v |-> 0]

NullNumeric == [Valid |-> FALSE, c |-> "num", v |-> 0]

\* pgtype.Numeric.Scan(string): "NaN" is a numeric, "+Inf" is not
ScanNumeric(txt) ==
  IF txt.c = "+Inf" THEN [err |-> TRUE, num |-> NullNumeric]
  ELSE [err |-> FALSE, num |-> [Valid |-> TRUE, c |-> txt.c, v |-> txt.v]]

\* pgtype.Numeric.Float64Value()
Float64Value(n) == IF n.Valid THEN [c |-> n.c, v |-> n.v] ELSE [c |-> "num", v |-> 0]

Zero == [c |-> "num", v |-> 0]

\* ------------------------------------------------------- inputs of the calls
MsgHi == GoMap({[k |-> "role", t |-> "string", v |-> 1], [k |-> "content", t |-> "string", v |-> 2]})

MsgCool ==
  GoMap({[k |-> "role", t |-> "string", v |-> 1], [k |-> "content", t |-> "string", v |-> 3],
         [k |-> "n", t |-> "int", v |-> 8]})

MsgChan == GoMap({[k |-> "role", t |-> "string", v |-> 1], [k |-> "content", t |-> "chan", v |-> 0]})

ParamsTemp == GoMap({[k |-> "temperature", t |-> "float64", v |-> 7]})

ParamsChan == GoMap({[k |-> "cb", t |-> "chan", v |-> 0]})

ReqDemo ==
  [UserID |-> 7, APIKeyID |-> 8, Model |-> "gpt-4", TargetURL |-> "openai",
   Inputs |-> <<MsgCool, MsgHi>>, Parameters |-> ParamsTemp, ClientIP |-> "127.0.0.1"]

\* the requests LogRequest is called with
RequestInputs ==
  { ReqDemo,
    [ReqDemo EXCEPT !.UserID = -1, !.Model = "claude", !.Inputs = <<>>, !.Parameters = NilMap,
                    !.ClientIP = ""],
    [ReqDemo EXCEPT !.Inputs = <<MsgHi, MsgChan>>],
    [ReqDemo EXCEPT !.Parameters = ParamsChan],
    [ReqDemo EXCEPT !.ClientIP = "not-an-ip"] }

\* texts passed as correlation id: the ids the store can hold (unknown until generated) and
\* a text that is no uuid
IdTexts == (1 .. MaxRequests) \cup {-1}

RespHello == GoMap({[k |-> "content", t |-> "string", v |-> 4], [k |-> "total_tokens", t |-> "int", v |-> 20]})

\* the storage is reachable or not; an unreachable storage is tried with one call of each kind
Storage(representative) == IF representative THEN BOOLEAN ELSE {FALSE}

\* ------------------------------------------- generated query layer (database)
RequestExists(u) == u.Valid /\ \E i \in DOMAIN request_log : request_log[i].RequestID = u

\* INSERT INTO request_log ... RETURNING *: the database generates the correlation id
InsertRequestLog(p, dbDown) ==
  IF dbDown THEN [err |-> "storage", row |-> <<>>]
  ELSE [err |-> "nil",
        row |-> [RequestID |-> [Valid |-> TRUE, Bytes |-> Len(request_log) + 1],
                 UserID |-> p.UserID, ApiKeyID |-> p.ApiKeyID, Model |-> p.Model,
                 TargetUrl |-> p.TargetUrl, Inputs |-> p.Inputs, Parameters |-> p.Parameters,
                 ReceivedAt |-> Len(request_log) + 1, ClientIp |-> p.ClientIp,
                 Archived |-> FALSE]]

\* ------------------------------------------------------------------ LogRequest
\* the loop that encodes each message on its own
MarshalEach(msgs) ==
  IF \E i \in DOMAIN msgs : Marshal(msgs[i]).err
  THEN [err |-> TRUE, list |-> <<>>]
  ELSE [err |-> FALSE, list |-> [i \in DOMAIN msgs |-> Marshal(msgs[i]).bytes]]

ReturnedID_UserID(row, r) == r.UserID

\* the correlation id LogRequest hands back for the inserted row
ReturnedID(row, r) == UUIDString(row.RequestID)

\* body of LogRequest between Lock and Unlock: [err, id, rows (rows to append)]
LogRequestBody(r, dbDown) ==
  LET inputs == MarshalEach(r.Inputs)
      params == Marshal(r.Parameters)
      ip == IF r.ClientIP # "" THEN ParseAddr(r.ClientIP) ELSE [err |-> FALSE, ip |-> NoIP]
      ins == InsertRequestLog([UserID |-> ScanUUID(r.UserID).uuid,
                               ApiKeyID |-> ScanUUID(r.APIKeyID).uuid,
                               Model |-> r.Model, TargetUrl |-> r.TargetURL,
                               Inputs |-> inputs.list, Parameters |-> params.bytes,
                               ClientIp |-> ip.ip], dbDown)
  IN  CASE inputs.err -> [err |-> "invalid messages", id |-> 0, rows |-> <<>>]
        [] ~inputs.err /\ params.err -> [err |-> "invalid parameters", id |-> 0, rows |-> <<>>]
        [] ~inputs.err /\ ~params.err /\ ip.err -> [err |-> "invalid IP", id |-> 0, rows |-> <<>>]
        [] ~inputs.err /\ ~params.err /\ ~ip.err /\ ins.err # "nil" ->
             [err |-> ins.err, id |-> 0, rows |-> <<>>]
        [] OTHER -> [err |-> "nil", id |-> ReturnedID(ins.row, r), rows |-> <<ins.row>>]

\* Trace{}: the zero value returned next to an error
TraceZero ==
  [RequestID |-> 0, UserID |-> 0, Model |-> "", Inputs |-> <<>>, Response |-> NilMap,
   RequestParameters |-> NilMap, FirewallInfo |-> <<>>, ClientIP |-> "", RiskScore |-> Zero,
   Blocked |-> FALSE, BlockedReason |-> ""]

Store_TraceZero ==
  [RequestID |-> 0, UserID |-> 0, Model |-> "", Messages |-> <<>>, Response |-> "",
   Parameters |-> NilMap, FirewallInfo |-> <<>>, ClientIP |-> "", RiskScore |-> Zero,
   Blocked |-> FALSE, BlockedReason |-> ""]

NoTrace == IF impl = "audit" THEN TraceZero ELSE Store_TraceZero

LogRequest ==
  /\ impl = "audit"
  /\ Len(request_log) < MaxRequests
  /\ \E r \in RequestInputs : \E dbDown \in Storage(r = ReqDemo) :
       LET res == LogRequestBody(r, dbDown) IN
         /\ request_log' = request_log \o res.rows
         /\ returned' = IF res.err = "nil" THEN Append(returned, res.id) ELSE returned
         /\ last' = [op |-> "LogRequest", arg |-> r, err |-> res.err, id |-> res.id,
                     trace |-> NoTrace, again |-> FALSE, down |-> dbDown]
  /\ UNCHANGED <<impl, response_log, firewall_event, firewallVars, parse, concVars>>

\* Store.LogRequest: the same steps on the Store's own mutex and query layer
Store_LogRequestBody(r, dbDown) == LogRequestBody(r, dbDown)

Store_LogRequest ==
  /\ impl = "store"
  /\ Len(request_log) < MaxRequests
  /\ \E r \in RequestInputs : \E dbDown \in Storage(r = ReqDemo) :
       LET res == Store_LogRequestBody(r, dbDown) IN
         /\ request_log' = request_log \o res.rows
         /\ returned' = IF res.err = "nil" THEN Append(returned, res.id) ELSE returned
         /\ last' = [op |-> "LogRequest", arg |-> r, err |-> res.err, id |-> res.id,
                     trace |-> NoTrace, again |-> FALSE, down |-> dbDown]
  /\ UNCHANGED <<impl, response_log, firewall_event, firewallVars, parse, concVars>>

\* ----------------------------------------------------------------- LogResponse
ResponseInputs ==
  [RequestID : IdTexts, Response : {RespHello}, LatencyMs : {150}]
    \cup [RequestID : {1, -1}, Response : {ParamsChan}, LatencyMs : {150}]

Store_ResponseInputs ==
  [RequestID : IdTexts, Response : {"Fire is hot."}, LatencyMs : {150}]

\* INSERT INTO response_log: correlation_id is a foreign key to request_log
InsertResponseLog(p, dbDown) ==
  CASE dbDown -> [err |-> "storage", rows |-> <<>>]
    [] ~dbDown /\ ~RequestExists(p.RequestID) -> [err |-> "referential", rows |-> <<>>]
    [] OTHER ->
         [err |-> "nil",
          rows |-> <<[ResponseID |-> Len(response_log) + 1, RequestID |-> p.RequestID,
                      Response |-> p.Response, CreatedAt |-> Len(response_log) + 1,
                      LatencyMs |-> p.LatencyMs]>>]

LogResponseErr_Dropped(insErr) == "nil"

\* the error LogResponse returns for the outcome of the insert
LogResponseErr(insErr) == insErr

LogResponseBody_InsertFirst(r, dbDown) ==
  LET reqUUID == ScanUUID(r.RequestID).uuid
      responseBytes == Marshal(r.Response)
      ins == InsertResponseLog([RequestID |-> reqUUID, Response |-> responseBytes.bytes,
                                LatencyMs |-> r.LatencyMs], dbDown)
  IN  [err |-> IF responseBytes.err THEN "invalid response" ELSE LogResponseErr(ins.err),
       rows |-> ins.rows]

\* body of LogResponse between Lock and Unlock: [err, rows (rows to append)]
LogResponseBody(r, dbDown) ==
  LET reqUUID == ScanUUID(r.RequestID).uuid
      responseBytes == Marshal(r.Response)
      ins == InsertResponseLog([RequestID |-> reqUUID, Response |-> responseBytes.bytes,
                                LatencyMs |-> r.LatencyMs], dbDown)
  IN  IF responseBytes.err THEN [err |-> "invalid response", rows |-> <<>>]
      ELSE [err |-> LogResponseErr(ins.err), rows |-> ins.rows]

LogResponse ==
  /\ impl = "audit"
  /\ Len(response_log) < MaxResponses
  /\ \E r \in ResponseInputs : \E dbDown \in Storage(r.RequestID = 1 /\ r.Response = RespHello) :
       LET res == LogResponseBody(r, dbDown) IN
         /\ response_log' = response_log \o res.rows
         /\ last' = [op |-> "LogResponse", arg |-> r, err |-> res.err, id |-> 0,
                     trace |-> NoTrace, again |-> FALSE, down |-> dbDown]
  /\ UNCHANGED <<impl, request_log, firewall_event, returned, firewallVars, parse, concVars>>

Store_LogResponseBody(r, dbDown) ==
  LET reqUUID == ScanUUID(r.RequestID).uuid
      ins == InsertResponseLog([RequestID |-> reqUUID, Response |-> r.Response,
                                LatencyMs |-> r.LatencyMs], dbDown)
  IN  [err |-> ins.err, rows |-> ins.rows]

Store_LogResponse ==
  /\ impl = "store"
  /\ Len(response_log) < MaxResponses
  /\ \E r \in Store_ResponseInputs : \E dbDown \in Storage(r.RequestID = 1) :
       LET res == Store_LogResponseBody(r, dbDown) IN
         /\ response_log' = response_log \o res.rows
         /\ last' = [op |-> "LogResponse", arg |-> r, err |-> res.err, id |-> 0,
                     trace |-> NoTrace, again |-> FALSE, down |-> dbDown]
  /\ UNCHANGED <<impl, request_log, firewall_event, returned, firewallVars, parse, concVars>>

\* ------------------------------------------------------------ LogFirewallEvent
EvDemo ==
  [RequestID |-> 1, FirewallID |-> "NO_HATE_SPEECH", FirewallType |-> "triggered",
   Blocked |-> FALSE, BlockedReason |-> "Hate speech detected.",
   RiskScore |-> [c |-> "num", v |-> 1200000]]

EventKinds ==
  { EvDemo,
    [EvDemo EXCEPT !.FirewallID = "NO_PII", !.Blocked = TRUE, !.BlockedReason = "",
                   !.RiskScore = [c |-> "num", v |-> 15000000]] }

EvInf == [EvDemo EXCEPT !.RiskScore = [c |-> "+Inf", v |-> 0]]

EventInputs ==
  {[e EXCEPT !.RequestID = id] : e \in EventKinds, id \in IdTexts}
    \cup {[EvInf EXCEPT !.RequestID = id] : id \in {1, -1}}

\* INSERT INTO firewall_event: correlation_id is a foreign key to request_log
InsertFirewallEvent(p, dbDown) ==
  CASE dbDown -> [err |-> "storage", rows |-> <<>>]
    [] ~dbDown /\ ~RequestExists(p.RequestID) -> [err |-> "referential", rows |-> <<>>]
    [] OTHER ->
         [err |-> "nil",
          rows |-> <<[FirewallEventID |-> Len(firewall_event) + 1, RequestID |-> p.RequestID,
                      FirewallID |-> p.FirewallID, FirewallType |-> p.FirewallType,
                      Blocked |-> p.Blocked, BlockedReason |-> p.BlockedReason,
                      RiskScore |-> p.RiskScore, EvaluatedAt |-> Len(firewall_event) + 1]>>]

\* the error LogFirewallEvent returns for the outcome of the insert
LogFirewallEventErr(insErr) == insErr

LogFirewallEventBody(fe, dbDown) ==
  LET reqUUID == ScanUUID(fe.RequestID)
      riskScore == ScanNumeric(Sprintf_f(fe.RiskScore))
      ins == InsertFirewallEvent([RequestID |-> reqUUID.uuid, FirewallID |-> fe.FirewallID,
                                  FirewallType |-> fe.FirewallType,
                                  Blocked |-> [Valid |-> TRUE, Bool |-> fe.Blocked],
                                  BlockedReason |-> [Valid |-> TRUE, String |-> fe.BlockedReason],
                                  RiskScore |-> riskScore.num], dbDown)
  IN  CASE reqUUID.err -> [err |-> "invalid request ID", rows |-> <<>>]
        [] ~reqUUID.err /\ riskScore.err -> [err |-> "invalid risk score", rows |-> <<>>]
        [] OTHER -> [err |-> LogFirewallEventErr(ins.err), rows |-> ins.rows]

LogFirewallEvent ==
  /\ impl = "audit"
  /\ Len(firewall_event) < MaxEvents
  /\ \E fe \in EventInputs : \E dbDown \in Storage(fe = EvDemo) :
       LET res == LogFirewallEventBody(fe, dbDown) IN
         /\ firewall_event' = firewall_event \o res.rows
         /\ last' = [op |-> "LogFirewallEvent", arg |-> fe, err |-> res.err, id |-> 0,
                     trace |-> NoTrace, again |-> FALSE, down |-> dbDown]
  /\ UNCHANGED <<impl, request_log, response_log, returned, firewallVars, parse, concVars>>

\* Store.LogFirewallEvent: the same steps on the Store's own mutex and query layer
Store_LogFirewallEventBody(fe, dbDown) == LogFirewallEventBody(fe, dbDown)

Store_LogFirewallEvent ==
  /\ impl = "store"
  /\ Len(firewall_event) < MaxEvents
  /\ \E fe \in EventInputs : \E dbDown \in Storage(fe = EvDemo) :
       LET res == Store_LogFirewallEventBody(fe, dbDown) IN
         /\ firewall_event' = firewall_event \o res.rows
         /\ last' = [op |-> "LogFirewallEvent", arg |-> fe, err |-> res.err, id |-> 0,
                     trace |-> NoTrace, again |-> FALSE, down |-> dbDown]
  /\ UNCHANGED <<impl, request_log, response_log, returned, firewallVars, parse, concVars>>

\* -------------------------------------------------------------------- GetTrace
NullText == [Valid |-> FALSE, String |-> ""]

NullBool == [Valid |-> FALSE, Bool |-> FALSE]

\* the columns of a left join that found no response / no firewall event
NullResponse == IF impl = "audit" THEN NoBytes ELSE NullText

NullEventColumns ==
  [FirewallID |-> NullText, FirewallType |-> NullText, Blocked |-> NullBool,
   BlockedReason |-> NullText, RiskScore |-> NullNumeric]

ResponseColumn(resp) ==
  IF impl = "audit" THEN resp.Response ELSE [Valid |-> TRUE, String |-> resp.Response]

EventColumns(ev) ==
  [FirewallID |-> [Valid |-> TRUE, String |-> ev.FirewallID],
   FirewallType |-> [Valid |-> TRUE, String |-> ev.FirewallType],
   Blocked |-> ev.Blocked, BlockedReason |-> ev.BlockedReason, RiskScore |-> ev.RiskScore]

\* SELECT ... FROM request_log LEFT JOIN response_log LEFT JOIN firewall_event
\* WHERE request_id = $1 ORDER BY evaluated_at: one row per (event, response) pair
GetRequestFullTrace(u, dbDown) ==
  LET reqs == SelectSeq(request_log, LAMBDA q : u.Valid /\ q.RequestID = u)
      resps == SelectSeq(response_log, LAMBDA q : u.Valid /\ q.RequestID = u)
      evs == SelectSeq(firewall_event, LAMBDA q : u.Valid /\ q.RequestID = u)
      R == IF resps = <<>> THEN <<NullResponse>>
           ELSE [i \in DOMAIN resps |-> ResponseColumn(resps[i])]
      E == IF evs = <<>> THEN <<NullEventColumns>>
           ELSE [i \in DOMAIN evs |-> EventColumns(evs[i])]
      Row(k) ==
        LET q == reqs[1]
            e == E[((k - 1) \div Len(R)) + 1]
        IN  [RequestID |-> q.RequestID, UserID |-> q.UserID, Model |-> q.Model,
             Inputs |-> q.Inputs, Parameters |-> q.Parameters, ClientIp |-> q.ClientIp,
             Response |-> R[((k - 1) % Len(R)) + 1],
             FirewallID |-> e.FirewallID, FirewallType |-> e.FirewallType,
             Blocked |-> e.Blocked, BlockedReason |-> e.BlockedReason,
             RiskScore |-> e.RiskScore]
  IN  CASE dbDown -> [err |-> "storage", rows |-> <<>>]
        [] ~dbDown /\ reqs = <<>> -> [err |-> "nil", rows |-> <<>>]
        [] OTHER -> [err |-> "nil", rows |-> [k \in 1 .. Len(E) * Len(R) |-> Row(k)]]

UnmarshalEach_Skips(blobs) ==
  LET good == SelectSeq(blobs, LAMBDA b : ~Unmarshal(b).err)
  IN  [err |-> FALSE, list |-> [i \in DOMAIN good |-> Unmarshal(good[i]).m]]

\* the loop that decodes each stored message
UnmarshalEach(blobs) ==
  IF \E i \in DOMAIN blobs : Unmarshal(blobs[i]).err
  THEN [err |-> TRUE, list |-> <<>>]
  ELSE [err |-> FALSE, list |-> [i \in DOMAIN blobs |-> Unmarshal(blobs[i]).m]]

\* the loop that collects the rows carrying a firewall event
FirewallEvents(rows) ==
  LET withEvent == SelectSeq(rows, LAMBDA r : r.FirewallID.Valid)
  IN  [i \in DOMAIN withEvent |->
         [RequestID |-> UUIDString(withEvent[i].RequestID),
          FirewallID |-> withEvent[i].FirewallID.String,
          FirewallType |-> withEvent[i].FirewallType.String,
          Blocked |-> withEvent[i].Blocked.Bool,
          BlockedReason |-> withEvent[i].BlockedReason.String,
          RiskScore |-> Float64Value(withEvent[i].RiskScore)]]

NotFoundErr_QueryErr(queryErr) == queryErr

\* the error GetTrace returns when the query gave no row
NotFoundErr(queryErr) == "request not found"

\* body of GetTrace between Lock and Unlock: [err, trace]
GetTraceBody(requestID, dbDown) ==
  LET reqUUID == ScanUUID(requestID).uuid
      q == GetRequestFullTrace(reqUUID, dbDown)
      row == q.rows[1]
      params == Unmarshal(row.Parameters).m
      inputs == UnmarshalEach(row.Inputs)
      response == Unmarshal(row.Response)
  IN  CASE q.err # "nil" -> [err |-> q.err, trace |-> TraceZero]
        [] q.err = "nil" /\ Len(q.rows) = 0 -> [err |-> NotFoundErr(q.err), trace |-> TraceZero]
        [] q.err = "nil" /\ Len(q.rows) > 0 /\ inputs.err ->
             [err |-> "invalid messages", trace |-> TraceZero]
        [] q.err = "nil" /\ Len(q.rows) > 0 /\ ~inputs.err /\ response.err ->
             [err |-> "invalid response", trace |-> TraceZero]
        [] OTHER ->
             [err |-> "nil",
              trace |-> [RequestID |-> UUIDString(row.RequestID),
                         UserID |-> UUIDString(row.UserID),
                         Model |-> row.Model,
                         Inputs |-> inputs.list,
                         Response |-> response.m,
                         RequestParameters |-> params,
                         FirewallInfo |-> FirewallEvents(q.rows),
                         ClientIP |-> IF row.ClientIp.Valid THEN row.ClientIp.Addr ELSE "",
                         RiskScore |-> IF row.RiskScore.Valid THEN Float64Value(row.RiskScore)
                                       ELSE Zero,
                         Blocked |-> row.Blocked.Bool,
                         BlockedReason |-> row.BlockedReason.String]]

TablesAfterGetTrace_Archives ==
  [request_log |-> [i \in DOMAIN request_log |-> [request_log[i] EXCEPT !.Archived = TRUE]],
   response_log |-> response_log, firewall_event |-> firewall_event]

TablesAfterGetTrace_Purges ==
  [request_log |-> request_log, response_log |-> response_log,
   firewall_event |-> SelectSeq(firewall_event, LAMBDA e : ~e.Blocked.Bool)]

\* what GetTrace does to the tables it reads
TablesAfterGetTrace ==
  [request_log |-> request_log, response_log |-> response_log,
   firewall_event |-> firewall_event]

GetTrace ==
  /\ impl = "audit"
  /\ \E requestID \in IdTexts : \E dbDown \in Storage(requestID = 1) :
       LET res == GetTraceBody(requestID, dbDown) IN
         last' = [op |-> "GetTrace", arg |-> requestID, err |-> res.err, id |-> 0,
                  trace |-> res.trace,
                  again |-> (last.op = "GetTrace" /\ last.arg = requestID), down |-> dbDown]
  /\ request_log' = TablesAfterGetTrace.request_log
  /\ response_log' = TablesAfterGetTrace.response_log
  /\ firewall_event' = TablesAfterGetTrace.firewall_event
  /\ UNCHANGED <<impl, returned, firewallVars, parse, concVars>>

Store_GetTraceBody(requestID, dbDown) ==
  LET reqUUID == ScanUUID(requestID).uuid
      q == GetRequestFullTrace(reqUUID, dbDown)
      row == q.rows[1]
      params == Unmarshal(row.Parameters).m
      messages == UnmarshalEach(row.Inputs)
  IN  CASE q.err # "nil" -> [err |-> q.err, trace |-> Store_TraceZero]
        [] q.err = "nil" /\ Len(q.rows) = 0 ->
             [err |-> NotFoundErr(q.err), trace |-> Store_TraceZero]
        [] q.err = "nil" /\ Len(q.rows) > 0 /\ messages.err ->
             [err |-> "invalid messages", trace |-> Store_TraceZero]
        [] OTHER ->
             [err |-> "nil",
              trace |-> [RequestID |-> UUIDString(row.RequestID),
                         UserID |-> UUIDString(row.UserID),
                         Model |-> row.Model,
                         Messages |-> messages.list,
                         Response |-> row.Response.String,
                         Parameters |-> params,
                         FirewallInfo |-> FirewallEvents(q.rows),
                         ClientIP |-> IF row.ClientIp.Valid THEN row.ClientIp.Addr ELSE "",
                         RiskScore |-> IF row.RiskScore.Valid THEN Float64Value(row.RiskScore)
                                       ELSE Zero,
                         Blocked |-> row.Blocked.Bool,
                         BlockedReason |-> row.BlockedReason.String]]

Store_GetTrace ==
  /\ impl = "store"
  /\ \E requestID \in IdTexts : \E dbDown \in Storage(requestID = 1) :
       LET res == Store_GetTraceBody(requestID, dbDown) IN
         last' = [op |-> "GetTrace", arg |-> requestID, err |-> res.err, id |-> 0,
                  trace |-> res.trace,
                  again |-> (last.op = "GetTrace" /\ last.arg = requestID), down |-> dbDown]
  /\ request_log' = TablesAfterGetTrace.request_log
  /\ response_log' = TablesAfterGetTrace.response_log
  /\ firewall_event' = TablesAfterGetTrace.firewall_event
  /\ UNCHANGED <<impl, returned, firewallVars, parse, concVars>>

\* ---------------------------------------------------- firewall configuration
FirewallTypes == {"malicious_intent"}

KnownModels == {"m1"}

\* types.NewFirewallType, types.NewInternalModelName, internal.GetModel
NewFirewallType(t) == [err |-> t \notin FirewallTypes, ft |-> t]

NewInternalModelName(n) == [err |-> n = "", name |-> n]

GetModel(n) == [err |-> n \notin KnownModels, model |-> n]

\* the entries a configuration file is made of
RawFirewalls ==
  [enabled : BOOLEAN, type : {"malicious_intent"}, model : {"m1"}, blockingThreshold : {5}]
    \cup { [enabled |-> TRUE, type |-> "bogus", model |-> "m1", blockingThreshold |-> 5],
           [enabled |-> TRUE, type |-> "malicious_intent", model |-> "", blockingThreshold |-> 5],
           [enabled |-> TRUE, type |-> "malicious_intent", model |-> "nope",
            blockingThreshold |-> 5] }

RawConfigs == UNION {[1 .. n -> RawFirewalls] : n \in 0 .. MaxFirewalls}

\* the error the loop of LoadConfig meets at one entry
EntryErr(rf) ==
  CASE NewFirewallType(rf.type).err -> "invalid firewall type"
    [] ~NewFirewallType(rf.type).err /\ NewInternalModelName(rf.model).err -> "invalid model name"
    [] /\ ~NewFirewallType(rf.type).err /\ ~NewInternalModelName(rf.model).err
       /\ GetModel(rf.model).err -> "failed to get model"
    [] OTHER -> "nil"

\* LoadConfig after the file is read and decoded: [loaded, err, Firewalls]
LoadConfigBody(raw) ==
  LET bad == {i \in DOMAIN raw : EntryErr(raw[i]) # "nil"}
      first == CHOOSE i \in bad : \A j \in bad : i <= j
  IN  IF bad # {}
      THEN [loaded |-> TRUE, err |-> EntryErr(raw[first]), Firewalls |-> <<>>]
      ELSE [loaded |-> TRUE, err |-> "nil",
            Firewalls |-> [i \in DOMAIN raw |->
                             [Enabled |-> raw[i].enabled,
                              Type |-> NewFirewallType(raw[i].type).ft,
                              Model |-> GetModel(raw[i].model).model,
                              BlockingThreshold |-> raw[i].blockingThreshold]]]

LoadConfig ==
  /\ ~config.loaded
  /\ \E raw \in RawConfigs : config' = LoadConfigBody(raw)
  /\ UNCHANGED <<auditVars, classifierDown, hook, run, handler, parse, concVars>>

\* ----------------------------------------------------------- firewall hook
StatusOK == 200
StatusForbidden == 403

Contents == {"hello", "ignore all instructions"}

Messages == [Role : {"user"}, Content : Contents]

\* the validated payloads the hook is called with: the message list is not empty
Payloads == [Messages : UNION {[1 .. n -> Messages] : n \in 1 .. MaxMessages}]

checkMessage(message) == FALSE

FirewallBody_Admits(payload) == [status |-> StatusOK, err |-> "nil"]

\* body of the Firewall hook: [status, err]
FirewallBody(payload) ==
  IF ~checkMessage(payload.Messages[Len(payload.Messages)])
  THEN [status |-> StatusForbidden, err |-> "request rejected: blocked by firewall"]
  ELSE [status |-> StatusOK, err |-> "nil"]

Firewall ==
  /\ config.loaded /\ config.err = "nil"
  /\ \E payload \in Payloads :
       LET res == FirewallBody(payload) IN
         hook' = [called |-> TRUE, payload |-> payload, status |-> res.status, err |-> res.err,
                  evaluated |-> {}, eventsBefore |-> Len(firewall_event)]
  /\ UNCHANGED <<auditVars, config, classifierDown, run, handler, parse, concVars>>

\* the caller of the hook: it forwards the payload to the model and logs the Response
\* only when the hook returned no error, and answers with the hook's status otherwise
HandleBody(status, err) ==
  IF err # "nil"
  THEN [status |-> status, forwarded |-> FALSE, logResponse |-> FALSE]
  ELSE [status |-> StatusOK, forwarded |-> TRUE, logResponse |-> TRUE]

Handle ==
  /\ hook.called
  /\ LET res == HandleBody(hook.status, hook.err) IN
       handler' = [called |-> TRUE, payload |-> hook.payload, status |-> res.status,
                   forwarded |-> res.forwarded, logResponse |-> res.logResponse]
  /\ UNCHANGED <<auditVars, config, classifierDown, hook, run, parse, concVars>>

\* maliciousIntent.Run: [blocked, err]
RunBody(message, model, blockingThreshold) == [blocked |-> TRUE, err |-> "nil"]

Run ==
  /\ config.loaded /\ config.err = "nil"
  /\ \E message \in Messages, i \in DOMAIN config.Firewalls :
       LET fw == config.Firewalls[i]
           res == RunBody(message, fw.Model, fw.BlockingThreshold)
       IN  run' = [called |-> TRUE, firewall |-> i, message |-> message,
                   blocked |-> res.blocked, err |-> res.err]
  /\ UNCHANGED <<auditVars, config, classifierDown, hook, handler, parse, concVars>>

\* ------------------------------------------------------ ParseGenerateRequest
Absent == [set |-> FALSE, v |-> 0]

Given(x) == [set |-> TRUE, v |-> x]

\* the registry of upstream models
Registry == {"gpt-4"}

TemperatureMin == 0
TemperatureMax == 20

\* types.NewName, Registry.GetInfo, types.NewMaxTokens, types.NewTemperature (tenths),
\* types.NewMessageFromJson
NewName(n) == [err |-> IF n = "" THEN "invalid model name" ELSE "nil", name |-> n]

GetInfo(n) == [exists |-> n \in Registry, info |-> n]

NewMaxTokens(n) == [err |-> IF n <= 0 THEN "invalid max_tokens" ELSE "nil", v |-> n]

NewTemperature(t) ==
  [err |-> IF t < TemperatureMin \/ t > TemperatureMax THEN "invalid temperature" ELSE "nil",
   v |-> t]

NewMessageFromJson(j) ==
  IF ~j.object \/ j.role \notin {"system", "user", "assistant", "tool"} \/ ~j.hasContent
  THEN [err |-> "invalid message", message |-> [Role |-> "", Content |-> "", Extra |-> ""]]
  ELSE [err |-> "nil", message |-> [Role |-> j.role, Content |-> j.content, Extra |-> j.extra]]

\* the untyped JSON values a messages array is made of
JsonValues ==
  { [object |-> TRUE, role |-> "user", hasContent |-> TRUE, content |-> "hi", extra |-> ""],
    [object |-> TRUE, role |-> "assistant", hasContent |-> TRUE, content |-> "ok",
     extra |-> "name"],
    [object |-> TRUE, role |-> "wizard", hasContent |-> TRUE, content |-> "hi", extra |-> ""],
    [object |-> FALSE, role |-> "", hasContent |-> FALSE, content |-> "", extra |-> ""] }

GenerateRequests ==
  [Name : {"", "gpt-4", "gpt-5"}, IsStreaming : {FALSE},
   MaxTokens : {Absent, Given(-1), Given(0), Given(16)},
   Temperature : {Absent, Given(-1), Given(0), Given(7), Given(20), Given(21)},
   Messages : UNION {[1 .. n -> JsonValues] : n \in 0 .. MaxMessages}]

\* model.GeneratePayload{}
PayloadZero ==
  [Model |-> "", IsStreaming |-> FALSE, MaxTokens |-> Absent, Temperature |-> Absent,
   Messages |-> <<>>]

MessagesEmpty_Never(messages) == FALSE

\* the test that rejects an empty messages array
MessagesEmpty(messages) == Len(messages) = 0

\* ParseGenerateRequest: [err, payload]
ParseGenerateRequestBody(generateRequest) ==
  LET name == NewName(generateRequest.Name)
      modelInfo == GetInfo(name.name)
      maxTokens == IF generateRequest.MaxTokens.set
                   THEN NewMaxTokens(generateRequest.MaxTokens.v) ELSE [err |-> "nil", v |-> 0]
      temp == IF generateRequest.Temperature.set
              THEN NewTemperature(generateRequest.Temperature.v) ELSE [err |-> "nil", v |-> 0]
      msgs == generateRequest.Messages
      badMsgs == {i \in DOMAIN msgs : NewMessageFromJson(msgs[i]).err # "nil"}
      Fail(e) == [err |-> e, payload |-> PayloadZero]
  IN  CASE name.err # "nil" -> Fail(name.err)
        [] name.err = "nil" /\ ~modelInfo.exists -> Fail("model not found")
        [] name.err = "nil" /\ modelInfo.exists /\ maxTokens.err # "nil" -> Fail(maxTokens.err)
        [] /\ name.err = "nil" /\ modelInfo.exists /\ maxTokens.err = "nil"
           /\ temp.err # "nil" -> Fail(temp.err)
        [] /\ name.err = "nil" /\ modelInfo.exists /\ maxTokens.err = "nil"
           /\ temp.err = "nil" /\ MessagesEmpty(msgs) ->
             Fail("messages must be a non-empty array")
        [] /\ name.err = "nil" /\ modelInfo.exists /\ maxTokens.err = "nil"
           /\ temp.err = "nil" /\ ~MessagesEmpty(msgs) /\ badMsgs # {} -> Fail("invalid message")
        [] OTHER ->
             [err |-> "nil",
              payload |-> [Model |-> modelInfo.info,
                           IsStreaming |-> generateRequest.IsStreaming,
                           MaxTokens |-> IF generateRequest.MaxTokens.set
                                         THEN Given(maxTokens.v) ELSE Absent,
                           Temperature |-> IF generateRequest.Temperature.set
                                           THEN Given(temp.v) ELSE Absent,
                           Messages |-> [i \in DOMAIN msgs |->
                                           NewMessageFromJson(msgs[i]).message]]]

\* the validator before it is called with request
ParseIdle(request) ==
  [called |-> FALSE, request |-> request, err |-> "nil", payload |-> PayloadZero]

ParseGenerateRequest ==
  /\ ~parse.called
  /\ LET res == ParseGenerateRequestBody(parse.request) IN
       parse' = [called |-> TRUE, request |-> parse.request, err |-> res.err,
                 payload |-> res.payload]
  /\ UNCHANGED <<auditVars, firewallVars, concVars>>

\* ------------------------------------------------------- concurrent callers
\* the calls of caller p; what it logs carries p, so that its rows can be told from the
\* rows of the other callers
Calls(p) ==
  {[op |-> "LogRequest", arg |-> [r EXCEPT !.UserID = p]] :
     r \in {ReqDemo, [ReqDemo EXCEPT !.ClientIP = "not-an-ip"]}}
  \cup {[op |-> "LogResponse",
         arg |-> [RequestID |-> 1, LatencyMs |-> p,
                  Response |-> IF impl = "audit" THEN RespHello ELSE "Fire is hot."]]}
  \cup {[op |-> "LogFirewallEvent",
         arg |-> [EvDemo EXCEPT !.RiskScore = [c |-> "num", v |-> p * 1000000]]]}
  \cup {[op |-> "GetTrace", arg |-> 1]}

\* a caller starts one audit operation
Call(p) ==
  /\ procs[p].pc = "idle"
  /\ \E c \in Calls(p) : \E dbDown \in Storage(c.op = "LogRequest" /\ c.arg.ClientIP = "127.0.0.1") :
       procs' = [procs EXCEPT ![p] = [pc |-> "lock", op |-> c.op, arg |-> c.arg,
                                      down |-> dbDown, err |-> "nil", id |-> 0]]
  /\ UNCHANGED <<auditVars, firewallVars, parse, mu, conn>>

TryLock_Always(m) == TRUE

\* Mu.Lock() returns only when the mutex is free
TryLock(m) == m = 0

Lock(p) ==
  /\ procs[p].pc = "lock"
  /\ TryLock(mu)
  /\ mu' = p
  /\ procs' = [procs EXCEPT ![p].pc = "query"]
  /\ UNCHANGED <<auditVars, firewallVars, parse, conn>>

\* the operation puts its statement on the store's connection
Query(p) ==
  /\ procs[p].pc = "query"
  /\ conn' = [owner |-> p, op |-> procs[p].op, arg |-> procs[p].arg, down |-> procs[p].down]
  /\ procs' = [procs EXCEPT ![p].pc = "result"]
  /\ UNCHANGED <<auditVars, firewallVars, parse, mu>>

\* what the statement on the connection does: [err, id, request, response, event (rows)]
Exec(c) ==
  CASE c.owner = 0 ->
         [err |-> "conn closed", id |-> 0, request |-> <<>>, response |-> <<>>, event |-> <<>>]
    [] c.owner # 0 /\ c.op = "LogRequest" ->
         LET res == IF impl = "audit" THEN LogRequestBody(c.arg, c.down)
                    ELSE Store_LogRequestBody(c.arg, c.down)
         IN  [err |-> res.err, id |-> res.id, request |-> res.rows, response |-> <<>>,
              event |-> <<>>]
    [] c.owner # 0 /\ c.op = "LogResponse" ->
         LET res == IF impl = "audit" THEN LogResponseBody(c.arg, c.down)
                    ELSE Store_LogResponseBody(c.arg, c.down)
         IN  [err |-> res.err, id |-> 0, request |-> <<>>, response |-> res.rows,
              event |-> <<>>]
    [] c.owner # 0 /\ c.op = "LogFirewallEvent" ->
         LET res == IF impl = "audit" THEN LogFirewallEventBody(c.arg, c.down)
                    ELSE Store_LogFirewallEventBody(c.arg, c.down)
         IN  [err |-> res.err, id |-> 0, request |-> <<>>, response |-> <<>>,
              event |-> res.rows]
    [] OTHER ->
         LET res == IF impl = "audit" THEN GetTraceBody(c.arg, c.down)
                    ELSE Store_GetTraceBody(c.arg, c.down)
         IN  [err |-> res.err, id |-> 0, request |-> <<>>, response |-> <<>>,
              event |-> <<>>]

\* the operation takes the outcome of the statement on the connection and returns
Result(p) ==
  /\ procs[p].pc = "result"
  /\ LET res == Exec(conn) IN
       /\ request_log' = request_log \o res.request
       /\ response_log' = response_log \o res.response
       /\ firewall_event' = firewall_event \o res.event
       /\ procs' = [procs EXCEPT ![p].pc = "unlock", ![p].err = res.err, ![p].id = res.id]
  /\ conn' = NoStatement
  /\ UNCHANGED <<impl, last, returned, firewallVars, parse, mu>>

Released_OnSuccess(err) == err = "nil"

\* defer Mu.Unlock(): the mutex is released whatever the operation returns
Released(err) == TRUE

Unlock(p) ==
  /\ procs[p].pc = "unlock"
  /\ mu' = IF Released(procs[p].err) THEN 0 ELSE mu
  /\ procs' = [procs EXCEPT ![p].pc = "done"]
  /\ UNCHANGED <<auditVars, firewallVars, parse, conn>>

\* ------------------------------------------------------------- specification
AuditInit ==
  /\ impl \in {"audit", "store"}
  /\ request_log = <<>>
  /\ response_log = <<>>
  /\ firewall_event = <<>>
  /\ last = [op |-> "none", arg |-> 0, err |-> "nil", id |-> 0, trace |-> NoTrace,
             again |-> FALSE, down |-> FALSE]
  /\ returned = <<>>

OthersInit ==
  /\ config = [loaded |-> FALSE, err |-> "nil", Firewalls |-> <<>>]
  /\ hook = [called |-> FALSE]
  /\ run = [called |-> FALSE]
  /\ handler = [called |-> FALSE]
  /\ mu = 0
  /\ conn = NoStatement
  /\ procs = [p \in Procs |-> Idle]


\* the audit store under any sequence of audit operations
Init ==
  /\ AuditInit
  /\ OthersInit
  /\ classifierDown = {}
  /\ parse = ParseIdle(CHOOSE r \in GenerateRequests : r.Name = "gpt-4" /\ r.Messages = <<>>)

Next ==
  \/ LogRequest
  \/ LogResponse
  \/ LogFirewallEvent
  \/ GetTrace
  \/ Store_LogRequest
  \/ Store_LogResponse
  \/ Store_LogFirewallEvent
  \/ Store_GetTrace

Spec == Init /\ [][Next]_vars

\* the firewall hook on a loaded configuration, classifiers reachable or not
FirewallInit ==
  /\ AuditInit
  /\ OthersInit
  /\ classifierDown \in SUBSET KnownModels
  /\ parse = ParseIdle(CHOOSE r \in GenerateRequests : r.Name = "gpt-4" /\ r.Messages = <<>>)

FirewallNext ==
  \/ LoadConfig
  \/ Firewall
  \/ Run
  \/ Handle

FirewallSpec == FirewallInit /\ [][FirewallNext]_vars

\* concurrent callers of one store, one audit operation each
ConcNext ==
  \E p \in Procs :
    \/ Call(p)
    \/ Lock(p)
    \/ Query(p)
    \/ Result(p)
    \/ Unlock(p)

ConcSpec == Init /\ [][ConcNext]_vars

\* the Go scheduler runs every goroutine that can run, and a goroutine waiting in Lock gets
\* the mutex once it stays free
ConcFairness ==
  \A p \in Procs : WF_vars(Lock(p) \/ Query(p) \/ Result(p) \/ Unlock(p))

ConcFairSpec == Init /\ [][ConcNext]_vars /\ ConcFairness

\* bytes in a column that json.Unmarshal cannot decode into a map: a JSON array, text that
\* is no JSON, no bytes at all
Undecodable == {[j |-> "array", members |-> {}], [j |-> "garbage", members |-> {}], NoBytes}

\* a Request row of the store, with the given parameters and messages columns
StoredRequest(parameters, inputs) ==
  [RequestID |-> ScanUUID(1).uuid, UserID |-> ScanUUID(ReqDemo.UserID).uuid,
   ApiKeyID |-> ScanUUID(ReqDemo.APIKeyID).uuid, Model |-> ReqDemo.Model,
   TargetUrl |-> ReqDemo.TargetURL, Inputs |-> inputs, Parameters |-> parameters,
   ReceivedAt |-> 1, ClientIp |-> ParseAddr(ReqDemo.ClientIP).ip, Archived |-> FALSE]

StoredResponse(response) ==
  [ResponseID |-> 1, RequestID |-> ScanUUID(1).uuid, Response |-> response, CreatedAt |-> 1,
   LatencyMs |-> 150]

StoredEvent(fe) ==
  [FirewallEventID |-> 1, RequestID |-> ScanUUID(1).uuid, FirewallID |-> fe.FirewallID,
   FirewallType |-> fe.FirewallType, Blocked |-> [Valid |-> TRUE, Bool |-> fe.Blocked],
   BlockedReason |-> [Valid |-> TRUE, String |-> fe.BlockedReason],
   RiskScore |-> ScanNumeric(Sprintf_f(fe.RiskScore)).num, EvaluatedAt |-> 1]

\* GetTrace on a store whose rows were written before this process started, by this
\* package or not: the byte columns hold any bytes
StoredInit ==
  /\ impl \in {"audit", "store"}
  /\ request_log \in
       {<<StoredRequest(parameters, inputs)>> :
          parameters \in {Marshal(ParamsTemp).bytes, Marshal(NilMap).bytes} \cup Undecodable,
          inputs \in {<<Marshal(MsgCool).bytes, Marshal(MsgHi).bytes>>} \cup
                     {<<Marshal(MsgCool).bytes, b>> : b \in Undecodable}}
  /\ response_log \in
       {<<>>} \cup
       (IF impl = "audit"
        THEN {<<StoredResponse(b)>> : b \in {Marshal(RespHello).bytes} \cup Undecodable}
        ELSE {<<StoredResponse("Fire is hot.")>>})
  /\ firewall_event \in {<<>>} \cup {<<StoredEvent(fe)>> : fe \in EventKinds}
  /\ last = [op |-> "none", arg |-> 0, err |-> "nil", id |-> 0, trace |-> NoTrace,
             again |-> FALSE, down |-> FALSE]
  /\ returned = <<>>
  /\ OthersInit
  /\ classifierDown = {}
  /\ parse = ParseIdle(CHOOSE r \in GenerateRequests : r.Name = "gpt-4" /\ r.Messages = <<>>)

StoredNext ==
  \/ GetTrace
  \/ Store_GetTrace

StoredSpec == StoredInit /\ [][StoredNext]_vars

\* the validator on every inbound request
ParseNext == ParseGenerateRequest

ParseInit ==
  /\ AuditInit
  /\ OthersInit
  /\ classifierDown = {}
  /\ parse \in {ParseIdle(r) : r \in GenerateRequests}

ParseSpec == ParseInit /\ [][ParseNext]_vars

\* ------------------------------------------------------------------- claims
\* the rows of a table that carry the correlation id of text id
RowsOf(table, id) == SelectSeq(table, LAMBDA q : q.RequestID = ScanUUID(id).uuid)

Known(id) == RequestExists(ScanUUID(id).uuid)

\* C1: every successful LogRequest returns a well-formed correlation id different from the
\* id every other successful LogRequest returned, also for identical payloads, and the id
\* of a stored Request never changes afterwards.
C1_UniqueImmutableIds ==
  /\ [](\A i, j \in DOMAIN returned : returned[i] > 0 /\ (i # j => returned[i] # returned[j]))
  /\ [][\A i \in DOMAIN request_log :
          i \in DOMAIN request_log' /\ request_log'[i].RequestID = request_log[i].RequestID]_vars

C1_Witness ==
  /\ Len(returned) = 2
  /\ last.op = "LogRequest" /\ last.err = "nil"
  /\ [request_log[1] EXCEPT !.RequestID = NullUUID, !.ReceivedAt = 0]
       = [request_log[2] EXCEPT !.RequestID = NullUUID, !.ReceivedAt = 0]

\* the errors that say the correlation id names no Request
ReferentialErrors == {"referential", "invalid request ID"}

C3_PendingResponseIsNoError ==
  (/\ last.op = "GetTrace" /\ Known(last.arg)
   /\ RowsOf(response_log, last.arg) = <<>>
   /\ last.err # "storage")
  => (last.err = "nil" /\ last.trace.RequestID = last.arg)

\* the FirewallEvent values logged for a correlation id, in evaluated-at order
LoggedEvents(id) ==
  LET evs == RowsOf(firewall_event, id)
  IN  [i \in DOMAIN evs |->
         [RequestID |-> id, FirewallID |-> evs[i].FirewallID,
          FirewallType |-> evs[i].FirewallType, Blocked |-> evs[i].Blocked.Bool,
          BlockedReason |-> evs[i].BlockedReason.String,
          RiskScore |-> [c |-> evs[i].RiskScore.c, v |-> evs[i].RiskScore.v]]]

\* C4: for a Request with N logged firewall events, whatever Response rows exist, GetTrace
\* succeeds and FirewallInfo is exactly the N events, each once, in evaluated-at order.
C4_FirewallInfoComplete ==
  (last.op = "GetTrace" /\ Known(last.arg) /\ last.err # "storage")
  => (last.err = "nil" /\ last.trace.FirewallInfo = LoggedEvents(last.arg))

\* the same, for the requests that have exactly one Response row
C4_FirewallInfoCompleteOneResponse ==
  (/\ last.op = "GetTrace" /\ Known(last.arg) /\ last.err # "storage"
   /\ Len(RowsOf(response_log, last.arg)) = 1)
  => (last.err = "nil" /\ last.trace.FirewallInfo = LoggedEvents(last.arg))

\* a Request as the spec wants it: messages present and encodable, parameters encodable,
\* client IP absent or parsable
WellFormed(r) ==
  /\ Len(r.Inputs) > 0
  /\ ~MarshalEach(r.Inputs).err
  /\ ~Marshal(r.Parameters).err
  /\ (r.ClientIP = "" \/ ~ParseAddr(r.ClientIP).err)

\* structural JSON equality of two Go maps
JsonEqual(a, b) == Marshal(a) = Marshal(b)

TraceInputs(t) == IF impl = "audit" THEN t.Inputs ELSE t.Messages

TraceParameters(t) == IF impl = "audit" THEN t.RequestParameters ELSE t.Parameters

\* C5: LogRequest of a well-formed Request followed by GetTrace on the returned id yields
\* the Model, the Inputs (same messages, same order) and the parameters passed.
C5_RoundTrip ==
  [][(/\ last.op = "LogRequest" /\ last.err = "nil" /\ WellFormed(last.arg)
      /\ last'.op = "GetTrace" /\ last'.arg = last.id /\ last'.err # "storage")
     => /\ last'.err = "nil"
        /\ last'.trace.Model = last.arg.Model
        /\ Len(TraceInputs(last'.trace)) = Len(last.arg.Inputs)
        /\ \A i \in DOMAIN last.arg.Inputs :
             JsonEqual(TraceInputs(last'.trace)[i], last.arg.Inputs[i])
        /\ JsonEqual(TraceParameters(last'.trace), last.arg.Parameters)]_vars

EnabledFirewalls == {i \in DOMAIN config.Firewalls : config.Firewalls[i].Enabled}

\* C7: fail closed: when the classifier of an enabled firewall cannot be invoked, the
\* outcome of that firewall is blocked and the error is returned to the caller, and the
\* hook does not admit the request.
C7_FailClosed ==
  /\ (/\ run.called /\ run.firewall \in EnabledFirewalls
      /\ config.Firewalls[run.firewall].Model \in classifierDown)
     => (run.blocked /\ run.err # "nil")
  /\ (/\ hook.called
      /\ \E i \in EnabledFirewalls : config.Firewalls[i].Model \in classifierDown)
     => hook.status # StatusOK

\* C8: a request that reaches the hook has every enabled firewall evaluated and one
\* FirewallEvent appended for each enabled firewall, none for a disabled one.
C8_OneEventPerEnabledFirewall ==
  hook.called =>
    /\ hook.evaluated = EnabledFirewalls
    /\ Len(firewall_event) - hook.eventsBefore = Cardinality(EnabledFirewalls)

\* C9: the hook blocks exactly when some enabled firewall's own decision is blocked, and
\* admits the request when no enabled firewall blocks.
C9_BlockedIffSomeFirewallBlocks ==
  hook.called =>
    LET message == hook.payload.Messages[Len(hook.payload.Messages)]
        someBlocks == \E i \in EnabledFirewalls :
                        RunBody(message, config.Firewalls[i].Model,
                                config.Firewalls[i].BlockingThreshold).blocked
    IN  /\ (hook.status = StatusForbidden) <=> someBlocks
        /\ ~someBlocks => (hook.status = StatusOK /\ hook.err = "nil")

\* C10: ParseGenerateRequest rejects, with an error and the zero payload, every request
\* whose temperature is out of range, whose max-tokens is not positive or whose messages
\* array is empty; a payload it returns has one Message per input message, in input order,
\* and at least one.
C10_ParseRejectsOrKeepsMessages ==
  parse.called =>
    /\ (\/ /\ parse.request.Temperature.set
           /\ (parse.request.Temperature.v < TemperatureMin
               \/ parse.request.Temperature.v > TemperatureMax)
        \/ (parse.request.MaxTokens.set /\ parse.request.MaxTokens.v <= 0)
        \/ Len(parse.request.Messages) = 0)
       => (parse.err # "nil" /\ parse.payload = PayloadZero)
    /\ parse.err = "nil" =>
         /\ Len(parse.payload.Messages) > 0
         /\ Len(parse.payload.Messages) = Len(parse.request.Messages)
         /\ \A i \in DOMAIN parse.request.Messages :
              /\ parse.payload.Messages[i].Role = parse.request.Messages[i].role
              /\ parse.payload.Messages[i].Content = parse.request.Messages[i].content
              /\ parse.payload.Messages[i].Extra = parse.request.Messages[i].extra

C10_Witness ==
  /\ parse.called
  /\ parse.request.Name = "gpt-4"
  /\ parse.request.Temperature = Given(7)
  /\ parse.request.MaxTokens = Given(16)
  /\ parse.request.Messages = <<>>
  /\ parse.err = "messages must be a non-empty array"

\* the risk scores of the range [0, 1], in units of 10^-7
RiskInRange(x) == x.c = "num" /\ x.v >= 0 /\ x.v <= 10000000

\* C11: LogFirewallEvent with a risk score outside [0,1] fails and appends no row, so every
\* stored FirewallEvent and every FirewallEvent of a Trace has a risk score within [0,1].
C11_RiskScoreInRange ==
  /\ \A i \in DOMAIN firewall_event :
       RiskInRange([c |-> firewall_event[i].RiskScore.c, v |-> firewall_event[i].RiskScore.v])
  /\ (last.op = "LogFirewallEvent" /\ ~RiskInRange(last.arg.RiskScore)) => last.err # "nil"
  /\ (last.op = "GetTrace" /\ last.err = "nil")
       => \A i \in DOMAIN last.trace.FirewallInfo :
            RiskInRange(last.trace.FirewallInfo[i].RiskScore)

\* C12: GetTrace for a correlation id no successful LogRequest returned fails with the
\* not-found error, which is not the error of an unreachable storage, and returns the zero
\* Trace.
C12_UnknownIdNotFound ==
  (last.op = "GetTrace" /\ \A i \in DOMAIN returned : returned[i] # last.arg)
  => /\ last.trace = NoTrace
     /\ last.err = IF last.down THEN "storage" ELSE "request not found"

C12_Witness ==
  /\ last.op = "GetTrace"
  /\ Len(request_log) = 1
  /\ last.arg = 2
  /\ last.err = "request not found"

\* the hook's decision on a payload: admitted iff the check of the latest message passes
Admitted(payload) == checkMessage(payload.Messages[Len(payload.Messages)])

C14_AtMostOneResponse ==
  \A i, j \in DOMAIN response_log :
    response_log[i].RequestID = response_log[j].RequestID => i = j

\* C15: every stored FirewallEvent that blocked has a reason that is not empty.
C15_BlockedHasReason ==
  \A i \in DOMAIN firewall_event :
    firewall_event[i].Blocked.Bool => firewall_event[i].BlockedReason.String # ""

\* C17: the message list of every stored Request is not empty: LogRequest never creates a
\* Request row with an empty list.
C17_InputsNonEmpty ==
  /\ \A i \in DOMAIN request_log : Len(request_log[i].Inputs) > 0
  /\ (last.op = "LogRequest" /\ Len(last.arg.Inputs) = 0) => last.err # "nil"

\* table after is table before with n rows appended
Appended(before, after, n) ==
  /\ Len(after) = Len(before) + n
  /\ SubSeq(after, 1, Len(before)) = before

LogOps == {"LogRequest", "LogResponse", "LogFirewallEvent"}

\* the number of rows a step appends to the table of kind op when the latest call is last'
Adds(op) == IF last'.op = op /\ last'.err = "nil" THEN 1 ELSE 0

\* C16: the audit log is append-only: no operation modifies or removes a row that exists,
\* GetTrace adds none, and a successful Log operation adds exactly one row of its own kind
\* and leaves the rows of the other two kinds as they are.
C16_AppendOnly ==
  [][/\ Appended(request_log, request_log', Adds("LogRequest"))
     /\ Appended(response_log, response_log', Adds("LogResponse"))
     /\ Appended(firewall_event, firewall_event', Adds("LogFirewallEvent"))]_auditVars

C16_Witness ==
  /\ last.op = "LogFirewallEvent" /\ last.err = "nil"
  /\ Len(request_log) = 2
  /\ Len(response_log) > 0
  /\ Len(firewall_event) = 2

InCritical == {p \in Procs : procs[p].pc \in {"query", "result", "unlock"}}

\* the callers whose operation op has returned without error
Succeeded(op) ==
  {p \in Procs : procs[p].pc \in {"unlock", "done"} /\ procs[p].op = op /\ procs[p].err = "nil"}

C20_ReleasedOnEveryPath ==
  /\ [](mu # 0 => mu \in InCritical)
  /\ [](InCritical = {} => mu = 0)
  /\ \A p \in Procs : (procs[p].pc = "lock") ~> (procs[p].pc = "done")

C20_Witness ==
  /\ procs[1].pc = "done" /\ procs[1].err = "invalid IP"
  /\ procs[2].pc = "result"
  /\ mu = 2

\* the stored columns GetTrace of id 1 decodes, and whether they can be decoded
ParametersUndecodable == Unmarshal(request_log[1].Parameters).err

MessageUndecodable == \E i \in DOMAIN request_log[1].Inputs : Unmarshal(request_log[1].Inputs[i]).err

\* the response column of the first row of the join; the pooled store keeps it as text
ResponseUndecodable ==
  /\ impl = "audit"
  /\ Unmarshal(IF response_log = <<>> THEN NoBytes ELSE response_log[1].Response).err

C22_BlockedIffSomeEventBlocked ==
  (last.op = "GetTrace" /\ last.err = "nil") =>
    (last.trace.Blocked <=>
       \E i \in DOMAIN firewall_event :
         /\ firewall_event[i].RequestID = ScanUUID(last.arg).uuid
         /\ firewall_event[i].Blocked.Bool)
====
